---------------------------- MODULE Spec2Model ----------------------------
(***************************************************************************)
(* Model of scripts/generate_samplesheet.py (find_fastq_files,             *)
(* parse_fastq_pairs, write_samplesheet, main) and of the file naming of   *)
(* scripts/generate_synthetic_fastq.py (generate_sample,                   *)
(* create_samplesheet, main).                                              *)
(*                                                                         *)
(* A Python str is modelled as a sequence of one-character strings, so     *)
(* that the regular expressions, os.path.basename, str.replace and the     *)
(* string ordering used by sorted() are computed and not assumed.          *)
(***************************************************************************)
EXTENDS Integers, Sequences, FiniteSets, TLC

(***************************************************************************)
(* Bounds of the model.                                                    *)
(***************************************************************************)
\* largest number of directory entries below --input_dir
MaxFiles == 3
\* largest number of --samples given to the synthetic generator
MaxSamples == 2

(***************************************************************************)
(* Strings.                                                                *)
(***************************************************************************)
\* An optional str (None or a str), as argparse and re.match give them
None == [given |-> FALSE, value |-> << >>]

Some(s) == [given |-> TRUE, value |-> s]

\* bool(x) for an optional str: None and '' are falsy
Truthy(x) == x.given /\ x.value # << >>

\* ord() of the characters that occur in sample names
Ord ==
    [c \in {".", "/", "0", "1", "2", "A", "R", "S", "T", "_", "a", "d", "e",
             "f", "g", "o", "q", "s", "t", "x", "z"} |->
        CASE c = "." -> 46 [] c = "/" -> 47 [] c = "0" -> 48 [] c = "1" -> 49
          [] c = "2" -> 50 [] c = "A" -> 65 [] c = "R" -> 82 [] c = "S" -> 83
          [] c = "T" -> 84 [] c = "_" -> 95 [] c = "a" -> 97 [] c = "d" -> 100
          [] c = "e" -> 101 [] c = "f" -> 102 [] c = "g" -> 103 [] c = "o" -> 111
          [] c = "q" -> 113 [] c = "s" -> 115 [] c = "t" -> 116 [] c = "x" -> 120
          [] c = "z" -> 122]

\* s < t for two str, as sorted() compares them: by code point, a proper
\* prefix first
StrLess(s, t) ==
    \E i \in 1..(Len(t)) :
        /\ \A j \in 1..(i - 1) : j <= Len(s) /\ s[j] = t[j]
        /\ \/ i = Len(s) + 1
           \/ i <= Len(s) /\ Ord[s[i]] < Ord[t[i]]

\* sorted(S) for a finite set of str
RECURSIVE Sorted(_)
Sorted(S) ==
    IF S = {} THEN << >>
    ELSE LET m == CHOOSE x \in S : \A y \in S \ {x} : StrLess(x, y)
         IN  <<m>> \o Sorted(S \ {m})

\* s.endswith(suf)
EndsWith(s, suf) ==
    /\ Len(suf) <= Len(s)
    /\ SubSeq(s, Len(s) - Len(suf) + 1, Len(s)) = suf

\* s[i:] starts with sub (i is 1-based)
OccursAt(s, sub, i) ==
    /\ i + Len(sub) - 1 <= Len(s)
    /\ SubSeq(s, i, i + Len(sub) - 1) = sub

\* re.search(pattern, s) for a pattern that is a literal
Contains(s, sub) == \E i \in 1..(Len(s) + 1) : OccursAt(s, sub, i)

\* os.path.basename(path): what follows the last "/"
Basename(path) ==
    LET slashes == {i \in 1..Len(path) : path[i] = "/"}
        last == IF slashes = {} THEN 0
                ELSE CHOOSE i \in slashes : \A j \in slashes : j <= i
    IN  SubSeq(path, last + 1, Len(path))

\* os.path.join(root, file) for a relative file name and a non-empty root
PathJoin(root, file) ==
    IF root # << >> /\ root[Len(root)] = "/" THEN root \o file
    ELSE root \o <<"/">> \o file

\* s.replace(old, new): every non-overlapping occurrence, from the left; an
\* empty old occurs before every character and at the end
RECURSIVE StrReplace(_, _, _)
StrReplace(s, old, new) ==
    IF s = << >> THEN (IF old = << >> THEN new ELSE << >>)
    ELSE IF old = << >>
         THEN new \o <<s[1]>> \o StrReplace(Tail(s), old, new)
         ELSE IF OccursAt(s, old, 1)
              THEN new \o StrReplace(SubSeq(s, Len(old) + 1, Len(s)), old, new)
              ELSE <<s[1]>> \o StrReplace(Tail(s), old, new)

(***************************************************************************)
(* The regular expressions of parse_fastq_pairs.                           *)
(***************************************************************************)
\* the language of \.f(ast)?q(\.gz)? , also fastq_extensions of
\* find_fastq_files
FastqExtensions ==
    { <<".", "f", "a", "s", "t", "q", ".", "g", "z">>,
      <<".", "f", "q", ".", "g", "z">>,
      <<".", "f", "a", "s", "t", "q">>,
      <<".", "f", "q">> }

NumRules == 4

\* paired_patterns: for each rule, the mate designators that the mate-1 and
\* the mate-2 pattern accept between (.+) and the extension
PairedPatterns ==
    << [r1 |-> { <<"_", "R", "1">>, <<"_", "R", "1", "_", "0", "0", "1">> },
        r2 |-> { <<"_", "R", "2">>, <<"_", "R", "2", "_", "0", "0", "1">> }],
       [r1 |-> { <<"_", "1">> },      r2 |-> { <<"_", "2">> }],
       [r1 |-> { <<".", "R", "1">> }, r2 |-> { <<".", "R", "2">> }],
       [r1 |-> { <<".", "1">> },      r2 |-> { <<".", "2">> }] >>

\* re.match(r'(.+)<designator>\.f(ast)?q(\.gz)?$', s).group(1), or None:
\* (.+) is greedy, so group(1) is the longest non-empty prefix that leaves
\* a designator followed by an extension
ReMatchGroup1(designators, s) ==
    LET tails == {d \o e : d \in designators, e \in FastqExtensions}
        ends == {Len(s) - Len(tl) : tl \in {x \in tails : EndsWith(s, x)}} \ {0}
    IN  IF ends = {} THEN None
        ELSE Some(SubSeq(s, 1, CHOOSE i \in ends : \A j \in ends : j <= i))

\* re.sub(r'\.f(ast)?q(\.gz)?$', '', s): the leftmost match is removed
StripExtension(s) ==
    LET starts == {i \in 1..Len(s) :
                      SubSeq(s, i, Len(s)) \in FastqExtensions}
    IN  IF starts = {} THEN s
        ELSE SubSeq(s, 1, (CHOOSE i \in starts : \A j \in starts : i <= j) - 1)

(***************************************************************************)
(* The inputs of the model: a directory tree and the command lines.        *)
(***************************************************************************)
\* the extensions used by the entries below
FqExt == <<".", "f", "q">>

FastqGzExt == <<".", "f", "a", "s", "t", "q", ".", "g", "z">>

\* --input_dir, and a subdirectory of it that os.walk descends into
InputDir == <<"d">>

SubDir == <<"d", "/", "s">>

\* file names that a directory of the model may hold
FileNames ==
    { <<"A", "_", "R", "1">> \o FqExt,                      \* A_R1.fq
      <<"A", "_", "R", "2">> \o FqExt,                      \* A_R2.fq
      <<"A", "_", "R", "1", "_", "0", "0", "1">> \o FqExt,  \* A_R1_001.fq
      <<"A", "_", "1">> \o FqExt,                           \* A_1.fq
      <<"A", "_", "2">> \o FastqGzExt,                      \* A_2.fastq.gz
      <<"A">> \o FqExt,                                     \* A.fq
      <<"A">> \o FastqGzExt,                                \* A.fastq.gz
      <<"A", ".", "R", "1">> \o FqExt,                      \* A.R1.fq
      <<"A", ".", "R", "2">> \o FqExt,                      \* A.R2.fq
      <<"A", ".", "1">> \o FqExt,                           \* A.1.fq
      <<"A", ".", "2">> \o FqExt,                           \* A.2.fq
      <<"S", "_", "1", "_", "R", "1">> \o FqExt,            \* S_1_R1.fq
      <<"S", "_", "1", "_", "R", "2">> \o FqExt,            \* S_1_R2.fq
      <<"x", ".", "t", "x", "t">> }                         \* x.txt

\* the names that the subdirectory may hold as well
SubDirNames ==
    { <<"A", "_", "R", "1">> \o FqExt,
      <<"A", "_", "R", "2">> \o FqExt }

\* os.path.join(root, file) of every entry os.walk may yield
DirEntries ==
    {PathJoin(InputDir, n) : n \in FileNames} \cup
    {PathJoin(SubDir, n) : n \in SubDirNames}

\* --pattern: absent, or a regular expression that is a literal
Patterns == { None, Some(<<"R">>) }

\* choices of --strandedness
Strandedness ==
    { <<"a", "u", "t", "o">>,
      <<"u", "n", "s", "t", "r", "a", "n", "d", "e", "d">>,
      <<"f", "o", "r", "w", "a", "r", "d">>,
      <<"r", "e", "v", "e", "r", "s", "e">> }

\* --s3_bucket and --local_prefix: absent, empty, or a prefix
S3Buckets == { None, Some(<< >>), Some(<<"s", "3", ":", "/", "/", "b">>) }

LocalPrefixes == { None, Some(<< >>), Some(InputDir) }

\* --output_dir of the synthetic generator: its default and another one
DefaultOutputDir ==
    <<"t", "e", "s", "t", "_", "d", "a", "t", "a", "/", "f", "a", "s", "t", "q">>

OutputDirs == { DefaultOutputDir, <<"o">> }

\* --samples of the synthetic generator are drawn from these names
SampleNames ==
    { << >>, <<"S">>, <<"S", "_", "1">>, <<"T", "_", "R", "1">> }

(***************************************************************************)
(* State.                                                                  *)
(***************************************************************************)
VARIABLES
    fs,              \* the files below the scanned directory (paths)
    pc,              \* where the run is
    args,            \* the options main has read so far
    fastq_files,     \* main: the list find_fastq_files returned
    samples,         \* parse_fastq_pairs: sample name -> dict of 'R1', 'R2'
    remaining_files, \* parse_fastq_pairs: the working set
    matched_files,   \* parse_fastq_pairs: the files bound in this pass
    rule,            \* parse_fastq_pairs: index into paired_patterns
    order,           \* the order in which the working set is iterated now
    idx,             \* position of the running for loop in that order
    bindings,        \* history: the bindings made, with their pass
    calls,           \* history: the functions main has called
    output,          \* the lines of the samplesheet file, or NoFile
    gen              \* the synthetic generator: its options and progress

vars == <<fs, pc, args, fastq_files, samples, remaining_files, matched_files,
          rule, order, idx, bindings, calls, output, gen>>

parseVars == <<samples, remaining_files, matched_files, rule, order, idx,
               bindings>>

NoFile == <<"no such file">>

NoArgs == [pattern |-> None, strandedness |-> << >>,
           s3_bucket |-> None, local_prefix |-> None]

NoGen == [samples |-> << >>, output_dir |-> << >>, i |-> 0,
          files |-> {}, samplesheet |-> NoFile]

Range(s) == {s[i] : i \in DOMAIN s}

\* the orders in which a set may be iterated
RECURSIVE Orders(_)
Orders(S) ==
    IF S = {} THEN { << >> }
    ELSE UNION { {<<x>> \o o : o \in Orders(S \ {x})} : x \in S }

(***************************************************************************)
(* Python dicts.                                                           *)
(***************************************************************************)
EmptyDict == [k \in {} |-> k]

\* d[key] = value
DictSet(d, key, value) ==
    [k \in DOMAIN d \cup {key} |-> IF k = key THEN value ELSE d[k]]

\* samples[sample_name][slot] = file, samples a defaultdict(dict)
SetSlot(smp, sample_name, slot, file) ==
    LET reads == IF sample_name \in DOMAIN smp THEN smp[sample_name]
                 ELSE EmptyDict
    IN  DictSet(smp, sample_name, DictSet(reads, slot, file))

\* reads.get(slot, '')
GetSlot(reads, slot) == IF slot \in DOMAIN reads THEN reads[slot] ELSE << >>

(***************************************************************************)
(* generate_samplesheet.py                                                 *)
(***************************************************************************)
\* any(file.endswith(ext) for ext in fastq_extensions)
HasFastqExtension(file) == \E ext \in FastqExtensions : EndsWith(file, ext)

\* find_fastq_files(input_dir, pattern) on the tree fs
FindResult(tree, pattern) ==
    Sorted({p \in tree :
              /\ HasFastqExtension(Basename(p))
              /\ pattern = None \/ Contains(Basename(p), pattern.value)})

\* (variant) main goes on to parse_fastq_pairs whatever was found
AfterFindNoCheck(found) == "parse"

\* if not fastq_files: print the error and return; else go on to
\* parse_fastq_pairs
AfterFind(found) == IF found = << >> THEN "no_files" ELSE "parse"

\* main, up to the call of parse_fastq_pairs: scan, and stop if nothing is
\* found
FindFastqFiles ==
    /\ pc = "main"
    /\ \E pattern \in Patterns :
        /\ args' = [args EXCEPT !.pattern = pattern]
        /\ fastq_files' = FindResult(fs, pattern)
    /\ calls' = Append(calls, "find_fastq_files")
    /\ pc' = AfterFind(fastq_files')
    /\ UNCHANGED <<fs, parseVars, output, gen>>

\* parse_fastq_pairs is entered: samples and the working set are created
ParseBegin ==
    /\ pc = "parse"
    /\ calls' = Append(calls, "parse_fastq_pairs")
    /\ samples' = EmptyDict
    /\ remaining_files' = Range(fastq_files)
    /\ rule' = 1
    /\ bindings' = {}
    /\ pc' = "pass"
    /\ UNCHANGED <<fs, args, fastq_files, matched_files, order, idx, output, gen>>

\* a pass of one rule begins; the set is iterated in some order, the same
\* for the outer and the inner loop, as the set does not change in the pass
PassBegin ==
    /\ pc = "pass"
    /\ matched_files' = {}
    /\ order' \in Orders(remaining_files)
    /\ idx' = 1
    /\ pc' = "pass_loop"
    /\ UNCHANGED <<fs, args, fastq_files, samples, remaining_files, rule,
                   bindings, calls, output, gen>>

\* the inner loop: the first file2 of the working set whose basename matches
\* r2_pattern with group(1) == sample_name; 0 if the loop ends without one
FirstMate2(ord, r, sample_name) ==
    LET hits == {j \in DOMAIN ord :
                    LET match2 == ReMatchGroup1(PairedPatterns[r].r2,
                                                Basename(ord[j]))
                    IN  match2 # None /\ match2.value = sample_name}
    IN  IF hits = {} THEN 0 ELSE CHOOSE j \in hits : \A k \in hits : j <= k

\* the body of the outer loop for file1 = ord[i]: samples and matched_files
\* after it, and the binding it made, if any
PassBody(smp, matched, ord, i, r) ==
    LET file1 == ord[i]
        match1 == ReMatchGroup1(PairedPatterns[r].r1, Basename(file1))
        j == IF match1 = None THEN 0 ELSE FirstMate2(ord, r, match1.value)
    IN  IF j = 0
        THEN [samples |-> smp, matched_files |-> matched, bound |-> {}]
        ELSE LET sample_name == match1.value
                 file2 == ord[j]
             IN  [samples |-> SetSlot(SetSlot(smp, sample_name, "R1", file1),
                                      sample_name, "R2", file2),
                  matched_files |-> matched \cup {file1, file2},
                  bound |-> {[rule |-> r, sample |-> sample_name,
                              R1 |-> file1, R2 |-> file2]}]

\* one iteration of the outer loop of a pass
PassStep ==
    /\ pc = "pass_loop"
    /\ idx <= Len(order)
    /\ LET body == PassBody(samples, matched_files, order, idx, rule)
       IN  /\ samples' = body.samples
           /\ matched_files' = body.matched_files
           /\ bindings' = bindings \cup body.bound
    /\ idx' = idx + 1
    /\ UNCHANGED <<fs, pc, args, fastq_files, remaining_files, rule, order,
                   calls, output, gen>>

\* (variant) the bound files are not taken out of the working set
RemainingKept(remaining, matched) == remaining

\* remaining_files -= matched_files
RemainingAfterPass(remaining, matched) == remaining \ matched

\* the outer loop of a pass is over (its iterator is gone): the bound files
\* leave the working set and the next rule, or the single-end loop, follows
PassEnd ==
    /\ pc = "pass_loop"
    /\ idx > Len(order)
    /\ remaining_files' = RemainingAfterPass(remaining_files, matched_files)
    /\ IF rule < NumRules
       THEN rule' = rule + 1 /\ pc' = "pass"
       ELSE rule' = rule /\ pc' = "single"
    /\ order' = << >>
    /\ idx' = 1
    /\ UNCHANGED <<fs, args, fastq_files, samples, matched_files, bindings,
                   calls, output, gen>>

\* the single-end loop begins, in some order of the working set
SingleBegin ==
    /\ pc = "single"
    /\ order' \in Orders(remaining_files)
    /\ idx' = 1
    /\ pc' = "single_loop"
    /\ UNCHANGED <<fs, args, fastq_files, samples, remaining_files,
                   matched_files, rule, bindings, calls, output, gen>>

\* the sample name of a single-end file
SingleName(file) == StripExtension(Basename(file))

\* the body of the single-end loop
SingleBody(smp, file) == SetSlot(smp, SingleName(file), "R1", file)

\* one iteration of the single-end loop
SingleStep ==
    /\ pc = "single_loop"
    /\ idx <= Len(order)
    /\ samples' = SingleBody(samples, order[idx])
    /\ idx' = idx + 1
    /\ UNCHANGED <<fs, pc, args, fastq_files, remaining_files, matched_files,
                   rule, order, bindings, calls, output, gen>>

\* return samples
ParseReturn ==
    /\ pc = "single_loop"
    /\ idx > Len(order)
    /\ pc' = "write"
    /\ order' = << >>
    /\ idx' = 1
    /\ UNCHANGED <<fs, args, fastq_files, samples, remaining_files,
                   matched_files, rule, bindings, calls, output, gen>>

(***************************************************************************)
(* parse_fastq_pairs as a function of its input, when every loop visits    *)
(* the working set in sorted order: the same loop bodies, run to the end.  *)
(***************************************************************************)
RECURSIVE PassFrom(_, _, _, _, _)
PassFrom(smp, matched, ord, i, r) ==
    IF i > Len(ord) THEN [samples |-> smp, matched_files |-> matched]
    ELSE LET body == PassBody(smp, matched, ord, i, r)
         IN  PassFrom(body.samples, body.matched_files, ord, i + 1, r)

RECURSIVE SinglesFrom(_, _, _)
SinglesFrom(smp, ord, i) ==
    IF i > Len(ord) THEN smp
    ELSE SinglesFrom(SingleBody(smp, ord[i]), ord, i + 1)

RECURSIVE SortedRunFrom(_, _, _)
SortedRunFrom(smp, remaining, r) ==
    IF r > NumRules THEN SinglesFrom(smp, Sorted(remaining), 1)
    ELSE LET pass == PassFrom(smp, {}, Sorted(remaining), 1, r)
         IN  SortedRunFrom(pass.samples,
                           RemainingAfterPass(remaining, pass.matched_files),
                           r + 1)

SortedRun(files) == SortedRunFrom(EmptyDict, files, 1)

\* the header line that both scripts write
Header ==
    <<"s", "a", "m", "p", "l", "e", ",", "f", "a", "s", "t", "q",
      "_", "1", ",", "f", "a", "s", "t", "q", "_", "2", ",", "s",
      "t", "r", "a", "n", "d", "e", "d", "n", "e", "s", "s">>

\* (variant) s3_prefix is set up when either option is truthy
S3PrefixEither(s3_bucket, local_prefix) ==
    IF Truthy(s3_bucket) \/ Truthy(local_prefix)
    THEN [given |-> TRUE, local |-> local_prefix.value, s3 |-> s3_bucket.value]
    ELSE [given |-> FALSE, local |-> << >>, s3 |-> << >>]

\* s3_prefix as main sets it up: a dict when both options are truthy, else
\* None
S3Prefix(s3_bucket, local_prefix) ==
    IF Truthy(s3_bucket) /\ Truthy(local_prefix)
    THEN [given |-> TRUE, local |-> local_prefix.value, s3 |-> s3_bucket.value]
    ELSE [given |-> FALSE, local |-> << >>, s3 |-> << >>]

\* r1 and r2 of a row, after the optional conversion to S3 paths
RowPath(reads, slot, s3_prefix) ==
    LET r == GetSlot(reads, slot)
    IN  IF s3_prefix.given /\ (slot = "R1" \/ r # << >>)
        THEN StrReplace(r, s3_prefix.local, s3_prefix.s3)
        ELSE r

\* f'{sample_name},{r1},{r2},{strandedness}'
CsvLine(sample_name, r1, r2, strandedness) ==
    sample_name \o <<",">> \o r1 \o <<",">> \o r2 \o <<",">> \o strandedness

\* (variant) the samples are visited in descending order
RowOrderDescending(smp) ==
    LET up == Sorted(DOMAIN smp)
    IN  [i \in 1..Len(up) |-> up[Len(up) + 1 - i]]

\* the order in which write_samplesheet visits the samples:
\* sorted(samples.items())
RowOrder(smp) == Sorted(DOMAIN smp)

\* the lines write_samplesheet writes
SamplesheetLines(smp, strandedness, s3_prefix) ==
    LET names == RowOrder(smp)
    IN  <<Header>> \o
        [i \in 1..Len(names) |->
            CsvLine(names[i],
                    RowPath(smp[names[i]], "R1", s3_prefix),
                    RowPath(smp[names[i]], "R2", s3_prefix),
                    strandedness)]

\* main, from the return of parse_fastq_pairs: s3_prefix is set up and
\* write_samplesheet writes the file. The options --strandedness,
\* --s3_bucket and --local_prefix are drawn here, where main first reads
\* them (--pattern is drawn in FindFastqFiles).
WriteSamplesheet ==
    /\ pc = "write"
    /\ \E strandedness \in Strandedness, s3_bucket \in S3Buckets,
          local_prefix \in LocalPrefixes :
        /\ args' = [args EXCEPT !.strandedness = strandedness,
                                !.s3_bucket = s3_bucket,
                                !.local_prefix = local_prefix]
        /\ output' = SamplesheetLines(samples, strandedness,
                                      S3Prefix(s3_bucket, local_prefix))
    /\ calls' = Append(calls, "write_samplesheet")
    /\ pc' = "done"
    /\ UNCHANGED <<fs, fastq_files, parseVars, gen>>

(***************************************************************************)
(* generate_synthetic_fastq.py                                             *)
(***************************************************************************)
Mate1Suffix ==
    <<"_", "1", ".", "f", "a", "s", "t", "q", ".", "g", "z">>

\* (variant) mate 2 is named in the _R2 convention
Mate2SuffixR2 ==
    <<"_", "R", "2", ".", "f", "a", "s", "t", "q", ".", "g", "z">>

Mate2Suffix ==
    <<"_", "2", ".", "f", "a", "s", "t", "q", ".", "g", "z">>

\* r1_file and r2_file of generate_sample
GeneratedR1(output_dir, sample_name) ==
    PathJoin(output_dir, sample_name \o Mate1Suffix)

GeneratedR2(output_dir, sample_name) ==
    PathJoin(output_dir, sample_name \o Mate2Suffix)

\* generate_sample for the next name of --samples: both files are created
GenerateSample ==
    /\ pc = "generate"
    /\ gen.i <= Len(gen.samples)
    /\ LET made == {GeneratedR1(gen.output_dir, gen.samples[gen.i]),
                    GeneratedR2(gen.output_dir, gen.samples[gen.i])}
       IN  /\ fs' = fs \cup made
           /\ gen' = [gen EXCEPT !.i = @ + 1, !.files = @ \cup made]
    /\ UNCHANGED <<pc, args, fastq_files, parseVars, calls, output>>

\* the rows create_samplesheet writes: the paths are below test_data/fastq
\* whatever --output_dir is
CreatedLines(names) ==
    <<Header>> \o
    [i \in 1..Len(names) |->
        CsvLine(names[i],
                GeneratedR1(DefaultOutputDir, names[i]),
                GeneratedR2(DefaultOutputDir, names[i]),
                <<"a", "u", "t", "o">>)]

\* create_samplesheet, after the last sample; the generated directory is
\* then what generate_samplesheet.py is run on
CreateSamplesheet ==
    /\ pc = "generate"
    /\ gen.i > Len(gen.samples)
    /\ gen' = [gen EXCEPT !.samplesheet = CreatedLines(gen.samples)]
    /\ pc' = "main"
    /\ UNCHANGED <<fs, args, fastq_files, parseVars, calls, output>>

(***************************************************************************)
(* Specifications.                                                         *)
(***************************************************************************)
InitCommon ==
    /\ args = NoArgs
    /\ fastq_files = << >>
    /\ samples = EmptyDict
    /\ remaining_files = {}
    /\ matched_files = {}
    /\ rule = 1
    /\ order = << >>
    /\ idx = 1
    /\ bindings = {}
    /\ calls = << >>
    /\ output = NoFile

\* generate_samplesheet.py is started on a directory tree
Init ==
    /\ InitCommon
    /\ fs \in {S \in SUBSET DirEntries : Cardinality(S) <= MaxFiles}
    /\ pc = "main"
    /\ gen = NoGen

Next ==
    \/ FindFastqFiles
    \/ ParseBegin
    \/ PassBegin
    \/ PassStep
    \/ PassEnd
    \/ SingleBegin
    \/ SingleStep
    \/ ParseReturn
    \/ WriteSamplesheet

Spec == Init /\ [][Next]_vars

\* the lists of n names
NameLists(n) == [1..n -> SampleNames]

\* generate_synthetic_fastq.py is started on a fresh output directory, with
\* pairwise distinct --samples; generate_samplesheet.py follows
InitRoundTrip ==
    /\ InitCommon
    /\ fs = {}
    /\ pc = "generate"
    /\ \E n \in 1..MaxSamples :
        \E names \in NameLists(n), dir \in OutputDirs :
            /\ \A i, j \in 1..n : names[i] = names[j] => i = j
            /\ gen = [samples |-> names, output_dir |-> dir, i |-> 1,
                      files |-> {}, samplesheet |-> NoFile]

NextRoundTrip ==
    \/ GenerateSample
    \/ CreateSamplesheet
    \/ FindFastqFiles
    \/ ParseBegin
    \/ PassBegin
    \/ PassStep
    \/ PassEnd
    \/ SingleBegin
    \/ SingleStep
    \/ ParseReturn
    \/ WriteSamplesheet

SpecRoundTrip == InitRoundTrip /\ [][NextRoundTrip]_vars

(***************************************************************************)
(* Vocabulary of the properties.                                           *)
(***************************************************************************)
\* parse_fastq_pairs has returned
Parsed == pc \in {"write", "done"}

\* the input set of parse_fastq_pairs
InputSet == Range(fastq_files)

\* the stem of a file under the mate-1 and the mate-2 pattern of rule r
Mate1Stem(r, file) == ReMatchGroup1(PairedPatterns[r].r1, Basename(file))

Mate2Stem(r, file) == ReMatchGroup1(PairedPatterns[r].r2, Basename(file))

\* f1 and f2 are a conventional pair with stem s: mate 1 and mate 2 of one
\* rule
ConventionalPair(f1, f2, s) ==
    \E r \in 1..NumRules : Mate1Stem(r, f1) = Some(s) /\ Mate2Stem(r, f2) = Some(s)

\* f2 is a conventional mate 2 of f1: same rule, same stem
AreMates(f1, f2) ==
    \E r \in 1..NumRules :
        Mate1Stem(r, f1) # None /\ Mate2Stem(r, f2) = Mate1Stem(r, f1)

\* the slots of the returned mapping that hold file f
SlotsHolding(f) ==
    {nk \in UNION {{<<n, k>> : k \in DOMAIN samples[n]} : n \in DOMAIN samples} :
        samples[nk[1]][nk[2]] = f}

\* the pass of rule k is over
PassOver(k) == rule > k \/ pc \in {"single", "single_loop", "write", "done"}

\* the files of a binding
Mates(b) == {b.R1, b.R2}

(***************************************************************************)
(* C1. Every input file of parse_fastq_pairs is in exactly one slot ('R1'  *)
(* or 'R2') of exactly one returned record, and the slots hold nothing     *)
(* else: no file is lost and none appears twice.                           *)
(***************************************************************************)
C1_EveryFileInExactlyOneSlot ==
    Parsed =>
        /\ \A f \in InputSet : Cardinality(SlotsHolding(f)) = 1
        /\ \A n \in DOMAIN samples : \A k \in DOMAIN samples[n] :
               samples[n][k] \in InputSet

(***************************************************************************)
(* C2. A returned record keyed s has 'R2' if and only if the input held a  *)
(* conventional pair with stem s, and then its 'R1' and 'R2' are such a    *)
(* pair; a record without 'R2' holds no file whose conventional mate is in *)
(* the input.                                                              *)
(***************************************************************************)
C2_Mate2IffConventionalPair ==
    Parsed =>
        \A s \in DOMAIN samples :
            /\ "R2" \in DOMAIN samples[s] <=>
                   \E f1, f2 \in InputSet : ConventionalPair(f1, f2, s)
            /\ "R2" \in DOMAIN samples[s] =>
                   ConventionalPair(samples[s]["R1"], samples[s]["R2"], s)
            /\ "R2" \notin DOMAIN samples[s] =>
                   \A f \in InputSet :
                       /\ ~AreMates(samples[s]["R1"], f)
                       /\ ~AreMates(f, samples[s]["R1"])

(***************************************************************************)
(* C3. Within one rule pass a stem is bound at most once and no file is    *)
(* bound twice: two different bindings of the same pass have different     *)
(* stems and share no file.                                                *)
(***************************************************************************)
C3_StemBindsOncePerPass ==
    \A b1, b2 \in bindings :
        (b1.rule = b2.rule /\ b1 # b2) =>
            /\ b1.sample # b2.sample
            /\ Mates(b1) \cap Mates(b2) = {}

(***************************************************************************)
(* C4. The rules are applied in their order and first match wins per file: *)
(* a binding is made by the patterns of the rule of its pass; once the     *)
(* pass of that rule is over, both files are out of the working set, are   *)
(* visited by no later loop, are bound by no other rule and are not        *)
(* emitted as single-end records; and a mate-1 file of rule 1 whose mate   *)
(* is in the input is bound in the pass of rule 1.                         *)
(***************************************************************************)
C4_FirstMatchWinsPerFile ==
    /\ \A b \in bindings :
        /\ b.rule <= rule
        /\ Mate1Stem(b.rule, b.R1) = Some(b.sample)
        /\ Mate2Stem(b.rule, b.R2) = Some(b.sample)
        /\ PassOver(b.rule) =>
               /\ Mates(b) \cap remaining_files = {}
               /\ Mates(b) \cap Range(order) = {}
        /\ \A b2 \in bindings : b2.rule # b.rule => Mates(b) \cap Mates(b2) = {}
        /\ Parsed =>
               \A f \in Mates(b) :
                   ~(/\ SingleName(f) \in DOMAIN samples
                     /\ samples[SingleName(f)]["R1"] = f)
    /\ PassOver(1) =>
           \A f1 \in InputSet :
               \/ \E b \in bindings : b.rule = 1 /\ b.R1 = f1
               \/ Mate1Stem(1, f1) = None
               \/ \A f2 \in InputSet : Mate2Stem(1, f2) # Mate1Stem(1, f1)

\* a pair whose names hold "_1" was bound by rule 1, the later passes and
\* the single-end loop have run on a file that was left, and the run is over
C4_Witness ==
    /\ pc = "done"
    /\ remaining_files # {}
    /\ \E b \in bindings :
        /\ b.rule = 1
        /\ Contains(Basename(b.R1), <<"_", "1">>)
        /\ Contains(Basename(b.R2), <<"_", "1">>)

(***************************************************************************)
(* C5. Two runs of parse_fastq_pairs on the same input return the same     *)
(* mapping, whatever the order in which the working set is iterated: every *)
(* run returns what the run that iterates in sorted order returns.         *)
(***************************************************************************)
C5_RunsAgree == Parsed => samples = SortedRun(InputSet)

(***************************************************************************)
(* C6. Every file left in the working set after the four passes has a      *)
(* single-end record: keyed by its basename without the fastq extension,   *)
(* with the file as 'R1' and without 'R2'.                                 *)
(***************************************************************************)
C6_RemainingFilesAreSingleEnd ==
    Parsed =>
        \A f \in remaining_files :
            /\ SingleName(f) \in DOMAIN samples
            /\ samples[SingleName(f)] = [k \in {"R1"} |-> f]

(***************************************************************************)
(* Vocabulary of the properties of the writer.                             *)
(***************************************************************************)
\* the rows of the samplesheet, below its header
Rows == [i \in 1..(Len(output) - 1) |-> output[i + 1]]

\* strictly ascending sequence of str
Ascending(names) ==
    \A i, j \in DOMAIN names : i < j => StrLess(names[i], names[j])

\* 'R2' of a record, '' if the record is single-end
Mate2OrEmpty(reads) == IF "R2" \in DOMAIN reads THEN reads["R2"] ELSE << >>

\* a path with every occurrence of the local prefix replaced, if on
Remapped(path, on) ==
    IF on THEN StrReplace(path, args.local_prefix.value, args.s3_bucket.value)
    ELSE path

\* both prefixes were given on the command line
BothSupplied == args.s3_bucket.given /\ args.local_prefix.given

\* both prefixes were given and neither is empty
BothNonEmpty == Truthy(args.s3_bucket) /\ Truthy(args.local_prefix)

\* the samplesheet is the header and, for the samples in ascending order,
\* one row each, with the paths remapped if on
SheetIs(on) ==
    \E names \in Orders(DOMAIN samples) :
        /\ Ascending(names)
        /\ Len(output) = Len(names) + 1
        /\ output[1] = Header
        /\ \A i \in DOMAIN names :
               output[i + 1] =
                   CsvLine(names[i],
                           Remapped(samples[names[i]]["R1"], on),
                           Remapped(Mate2OrEmpty(samples[names[i]]), on),
                           args.strandedness)

(***************************************************************************)
(* C7 (as stated). write_samplesheet writes the header and then exactly    *)
(* one row per record, in ascending order of sample name, each row with    *)
(* the record's 'R1', its 'R2' or an empty field, and the strandedness.    *)
(***************************************************************************)
C7_RowsCarryRecordPaths == pc = "done" => SheetIs(FALSE)

(***************************************************************************)
(* C7 (amended). The same, the two paths of a row being the record's 'R1'  *)
(* and 'R2' after the prefix substitution when one is configured.          *)
(***************************************************************************)
C7_RowsCarryWrittenPaths == pc = "done" => SheetIs(BothNonEmpty)

\* a samplesheet with a paired and a single-end sample was written, with a
\* substitution configured
C7_Witness ==
    /\ pc = "done"
    /\ BothNonEmpty
    /\ \E n1, n2 \in DOMAIN samples :
        "R2" \in DOMAIN samples[n1] /\ "R2" \notin DOMAIN samples[n2]

(***************************************************************************)
(* C8. When find_fastq_files returns nothing main stops after it:          *)
(* parse_fastq_pairs and write_samplesheet are not called, no samplesheet  *)
(* is written and nothing follows; when a file is found, the calls are     *)
(* find_fastq_files, parse_fastq_pairs, write_samplesheet, once each in    *)
(* this order, and the samplesheet exists exactly when the last returned.  *)
(***************************************************************************)
C8_NoFilesStopsBeforeParse ==
    LET all == <<"find_fastq_files", "parse_fastq_pairs", "write_samplesheet">>
    IN  /\ calls = SubSeq(all, 1, Len(calls))
        /\ (calls # << >> /\ fastq_files = << >>) =>
               /\ pc = "no_files"
               /\ calls = <<"find_fastq_files">>
               /\ output = NoFile
               /\ ~ENABLED Next
        /\ pc = "no_files" => fastq_files = << >>
        /\ pc = "done" <=> calls = all
        /\ output # NoFile <=> pc = "done"

\* main stopped on a directory that holds files, none of them found
C8_Witness == pc = "no_files" /\ fs # {}

(***************************************************************************)
(* C9 (as stated). The paths of every row are remapped when, and only      *)
(* when, both --local_prefix and --s3_bucket are supplied; sample name and *)
(* strandedness are as given, and an empty mate 2 stays empty.             *)
(***************************************************************************)
C9_RemapIffBothSupplied ==
    pc = "done" =>
        /\ Len(Rows) = Cardinality(DOMAIN samples)
        /\ \A n \in DOMAIN samples :
               \E i \in DOMAIN Rows :
                   Rows[i] = CsvLine(n,
                                     Remapped(samples[n]["R1"], BothSupplied),
                                     IF "R2" \in DOMAIN samples[n]
                                     THEN Remapped(samples[n]["R2"], BothSupplied)
                                     ELSE << >>,
                                     args.strandedness)

(***************************************************************************)
(* C9 (amended). The same, with "supplied" read as "supplied and not       *)
(* empty": an empty --local_prefix or --s3_bucket leaves every path as     *)
(* resolved.                                                               *)
(***************************************************************************)
C9_RemapIffBothNonEmpty ==
    pc = "done" =>
        /\ Len(Rows) = Cardinality(DOMAIN samples)
        /\ \A n \in DOMAIN samples :
               \E i \in DOMAIN Rows :
                   Rows[i] = CsvLine(n,
                                     Remapped(samples[n]["R1"], BothNonEmpty),
                                     IF "R2" \in DOMAIN samples[n]
                                     THEN Remapped(samples[n]["R2"], BothNonEmpty)
                                     ELSE << >>,
                                     args.strandedness)

\* a row was written with its path changed by the substitution
C9_Witness ==
    /\ pc = "done"
    /\ BothNonEmpty
    /\ \E n \in DOMAIN samples :
        /\ "R2" \notin DOMAIN samples[n]
        /\ Remapped(samples[n]["R1"], TRUE) # samples[n]["R1"]

(***************************************************************************)
(* Vocabulary of the round trip.                                           *)
(***************************************************************************)
\* every generated file was given to parse_fastq_pairs
AllGeneratedParsed == Parsed /\ gen.files # {} /\ InputSet = gen.files

\* the returned mapping has one paired record per name of --samples, keyed
\* by the name, with the two files generate_sample made for it, and the
\* rows of create_samplesheet give the same sample and files
RoundTripHolds ==
    /\ DOMAIN samples = Range(gen.samples)
    /\ \A n \in DOMAIN samples :
        /\ DOMAIN samples[n] = {"R1", "R2"}
        /\ samples[n]["R1"] = GeneratedR1(gen.output_dir, n)
        /\ samples[n]["R2"] = GeneratedR2(gen.output_dir, n)
    /\ Len(gen.samplesheet) = Len(gen.samples) + 1
    /\ \A i \in DOMAIN gen.samples :
        LET n == gen.samples[i]
        IN  /\ n \in DOMAIN samples
            /\ DOMAIN samples[n] = {"R1", "R2"}
            /\ gen.samplesheet[i + 1] =
                   CsvLine(n,
                           PathJoin(DefaultOutputDir, Basename(samples[n]["R1"])),
                           PathJoin(DefaultOutputDir, Basename(samples[n]["R2"])),
                           <<"a", "u", "t", "o">>)
            /\ gen.output_dir = DefaultOutputDir =>
                   gen.samplesheet[i + 1] =
                       CsvLine(n, samples[n]["R1"], samples[n]["R2"],
                               <<"a", "u", "t", "o">>)

\* a sample name that is not empty and holds no path separator
PlainName(n) == n # << >> /\ \A i \in DOMAIN n : n[i] # "/"

=============================================================================
